---- MODULE Spec2Model ----
(***************************************************************************)
(* The service registry of the broker (src/src/registry/registry.js): the  *)
(* node catalog, the service catalog and the action catalog, and the       *)
(* operations Registry offers on them.                                     *)
(*                                                                         *)
(* registry.js is modelled from its code.  The catalogs it delegates to    *)
(* (node-catalog, service-catalog, action-catalog, endpoint-list) are not  *)
(* among the source files; they are modelled from the specification's      *)
(* sections 3, 4.1 and 4.2 and from the way registry.js uses them.         *)
(***************************************************************************)
EXTENDS Integers, Sequences, FiniteSets, TLC

VARIABLES nodes,      \* NodeCatalog: nodeID -> [available, local, cpu]
          services,   \* ServiceCatalog.services: the array of service items
          actions,    \* ActionCatalog.actions: action name -> endpoint list
          calls       \* what the last operation asked of the broker, in order

vars == <<nodes, services, actions, calls>>

----------------------------------------------------------------------------
(* Bounds of the model *)

\* registerLocalService is called while the local node has fewer service
\* items than this (the remote ones are bounded by the names there are)
MaxLocalServices == 2

\* an INFO packet lists at most this many services
MaxListLen == 2

LocalID == "local"
RemoteIDs == {"n1"}
NodeIDs == {LocalID} \cup RemoteIDs

ServiceNames == {"s1", "s2", "s3"}
LocalServiceNames == {"s1"}            \* the names of the services the broker hosts
Versions == {1}
ActionNames == {"a"}
Settings == {0}
CpuVals == {0}

\* the isUnexpected argument as JavaScript passes it
Flags == {"true", "false", "undefined"}
ToBool(u) == u = "true"               \* !!isUnexpected

\* svc.actions: an object keyed by action name
ActionMaps ==
    UNION { [D -> BOOLEAN] : D \in SUBSET ActionNames }

Descriptor(name, m) == [name |-> name, protected |-> m[name]]

\* a service descriptor as an INFO packet or a local service carries it
Svcs ==
    [name : ServiceNames, version : Versions, settings : Settings,
     actions : { m \in ActionMaps : \A k \in DOMAIN m : m[k] = FALSE }]

\* the descriptors of the services the broker hosts itself
LocalSvcs == { svc \in Svcs : svc.name \in LocalServiceNames }

RECURSIVE SeqsUpTo(_, _)
SeqsUpTo(S, n) ==
    IF n = 0 THEN { <<>> }
    ELSE LET shorter == SeqsUpTo(S, n - 1)
         IN  shorter \cup { Append(q, x) : q \in { p \in shorter : Len(p) = n - 1 }, x \in S }

ServiceLists == SeqsUpTo(Svcs, MaxListLen)

----------------------------------------------------------------------------
(* Sequence helpers (lodash _.remove) *)

\* the sequence q without its element at index i
Without(q, i) == SubSeq(q, 1, i - 1) \o SubSeq(q, i + 1, Len(q))

----------------------------------------------------------------------------
(* The registry as a value: the three catalogs and the broker calls made *)

\* (seen: what the registry held for the node of an event at the moment
\* the event was handed to the local subscribers, one record per event)
Reg(n, s, a, c) ==
    [nodes |-> n, services |-> s, actions |-> a, calls |-> c, seen |-> << >>]

\* An endpoint holds a reference to its service item (ep.service ==
\* service compares references).  A reference is the item's index in the
\* services array, 0 once the item has left the array; taking item i out
\* of the array moves the references with the items.
SpliceService(r, i) ==
    LET Moved(ep) == [ep EXCEPT !.service =
                        IF @ = i THEN 0 ELSE IF @ > i THEN @ - 1 ELSE @]
    IN  [r EXCEPT !.services = Without(@, i),
                  !.actions = [k \in DOMAIN r.actions |->
                                 [j \in 1..Len(r.actions[k]) |-> Moved(r.actions[k][j])]]]

----------------------------------------------------------------------------
(* ServiceItem and ServiceCatalog (spec 3 "Service", 4.2) *)

\* ServiceItem.equals(name, version, nodeID)
service_equals(service, name, version, nodeID) ==
    /\ service.name = name
    /\ service.version = version
    /\ (nodeID = "undefined" \/ service.node = nodeID)

\* ServiceCatalog.get: the index of the first item that equals, 0 for none
services_get(r, name, version, nodeID) ==
    LET hits == { i \in 1..Len(r.services) :
                    service_equals(r.services[i], name, version, nodeID) }
    IN  IF hits = {} THEN 0 ELSE CHOOSE i \in hits : \A j \in hits : i <= j

\* ServiceCatalog.add: create a service item and append it
services_add(r, nodeID, name, version, settings) ==
    [r EXCEPT !.services =
        Append(@, [node |-> nodeID, name |-> name,
                   version |-> version, settings |-> settings,
                   actions |-> [k \in {} |-> FALSE]])]

\* ServiceItem.update(svc): "else update settings"
service_update(r, i, svc) ==
    [r EXCEPT !.services[i].settings = svc.settings]

\* ServiceItem.addAction(action): actions[action.name] = action
service_addAction(r, i, action) ==
    LET old == r.services[i].actions
    IN  [r EXCEPT !.services[i].actions =
            [k \in DOMAIN old \cup {action.name} |->
                IF k = action.name THEN action.protected ELSE old[k]]]

----------------------------------------------------------------------------
(* EndpointList and ActionCatalog (spec 3 "Action entry", 4.2) *)

\* EndpointList.add with the bug of never looking for the node's endpoint
endpoints_add_always(list, nodeID, service, action) ==
    Append(list, [node |-> nodeID, service |-> service, action |-> action])

\* EndpointList.add: "add/update an endpoint", one per hosting node
endpoints_add(list, nodeID, service, action) ==
    LET hits == { i \in 1..Len(list) : list[i].node = nodeID }
    IN  IF hits # {}
        THEN [i \in 1..Len(list) |->
                IF i \in hits THEN [list[i] EXCEPT !.action = action] ELSE list[i]]
        ELSE Append(list, [node |-> nodeID, service |-> service, action |-> action])

\* ActionCatalog.add(node, service, action)
actions_add(r, nodeID, service, action) ==
    LET old == IF action.name \in DOMAIN r.actions THEN r.actions[action.name] ELSE << >>
    IN  [r EXCEPT !.actions =
            [k \in DOMAIN r.actions \cup {action.name} |->
                IF k = action.name THEN endpoints_add(old, nodeID, service, action)
                ELSE r.actions[k]]]

\* ActionCatalog.get(actionName): the entry, undefined when there is none
actions_get(r, actionName) ==
    IF actionName \in DOMAIN r.actions
    THEN [defined |-> TRUE, endpoints |-> r.actions[actionName]]
    ELSE [defined |-> FALSE, endpoints |-> << >>]

\* ActionCatalog.remove(actionName, nodeID): drop the node's endpoint
actions_remove(r, actionName, nodeID) ==
    IF actionName \notin DOMAIN r.actions THEN r
    ELSE LET Keep(ep) == ep.node # nodeID
         IN  [r EXCEPT !.actions[actionName] = SelectSeq(@, Keep)]

\* ActionCatalog.removeByService(service): drop the service's endpoints
actions_removeByService(r, service) ==
    LET Keep(ep) == ep.service # service
    IN  [r EXCEPT !.actions =
            [k \in DOMAIN r.actions |-> SelectSeq(r.actions[k], Keep)]]

\* ServiceCatalog.remove(name, version, nodeID): the endpoints of the
\* service leave the action catalog and the service leaves the array, in
\* place
services_remove(r, name, version, nodeID) ==
    LET i == services_get(r, name, version, nodeID)
    IN  IF i = 0 THEN r
        ELSE SpliceService(actions_removeByService(r, i), i)

RECURSIVE RemoveAllFrom(_, _, _)
RemoveAllFrom(r, nodeID, i) ==
    IF i = 0 THEN r
    ELSE IF r.services[i].node = nodeID
         THEN RemoveAllFrom(SpliceService(actions_removeByService(r, i), i), nodeID, i - 1)
         ELSE RemoveAllFrom(r, nodeID, i - 1)

\* ServiceCatalog.removeAllByNodeID(nodeID): every service of the node
\* leaves, with its endpoints
services_removeAllByNodeID(r, nodeID) == RemoveAllFrom(r, nodeID, Len(r.services))

----------------------------------------------------------------------------
(* Node and NodeCatalog (spec 3 "Node", 4.1) *)

\* NodeCatalog.get(nodeID) finds a node
nodes_has(r, nodeID) == nodeID \in DOMAIN r.nodes

\* what a broker call looks like in calls
Call(call, event, nodeID, flag) ==
    [call |-> call, event |-> event, node |-> nodeID, flag |-> flag]

\* what a subscriber that reads the registry from its handler finds for
\* the node of the event
Seen(r, event, nodeID) ==
    [event |-> event, node |-> nodeID,
     available |-> nodes_has(r, nodeID) /\ r.nodes[nodeID].available,
     services  |-> { i \in 1..Len(r.services) : r.services[i].node = nodeID },
     endpoints |-> { k \in DOMAIN r.actions :
                       \E j \in 1..Len(r.actions[k]) : r.actions[k][j].node = nodeID }]

\* broker.emitLocal(event, {node, ...}): the subscribers run inside the
\* call, on the registry as it is then
emitLocal(r, event, nodeID, flag) ==
    [r EXCEPT !.calls = Append(@, Call("emitLocal", event, nodeID, flag)),
              !.seen  = Append(@, Seen(r, event, nodeID))]

\* broker.servicesChanged(localService)
servicesChanged(r, localService) ==
    [r EXCEPT !.calls = Append(@, Call("servicesChanged", "-", "-", localService))]

\* Node.disconnected(isUnexpected): mark available = false
node_disconnected(r, nodeID, isUnexpected) ==
    [r EXCEPT !.nodes[nodeID].available = FALSE]

\* NodeCatalog.heartbeat(payload): an unknown sender is asked for its INFO,
\* a known one has cpu and lastHeartbeatAt updated and is marked available
nodes_heartbeat(r, payload) ==
    IF ~nodes_has(r, payload.sender)
    THEN [r EXCEPT !.calls = Append(@, Call("discoverNode", "-", payload.sender, FALSE))]
    ELSE [r EXCEPT !.nodes[payload.sender].cpu = payload.cpu,
                   !.nodes[payload.sender].available = TRUE]

----------------------------------------------------------------------------
(* Registry (src/src/registry/registry.js) *)

\* unregisterAction that empties the whole entry of the action
unregisterAction_everyNode(r, nodeID, name) ==
    IF name \notin DOMAIN r.actions THEN r
    ELSE [r EXCEPT !.actions[name] = << >>]

\* unregisterAction(node, name)
unregisterAction(r, nodeID, name) == actions_remove(r, name, nodeID)

\* unregisterService(name, version, nodeID): nodeID || this.broker.nodeID
unregisterService(r, name, version, nodeID) ==
    services_remove(r, name, version,
                    IF nodeID = "undefined" THEN LocalID ELSE nodeID)

\* unregisterServicesByNode that removes the first service of the node only
unregisterServicesByNode_firstOnly(r, nodeID) ==
    LET hits == { i \in 1..Len(r.services) : r.services[i].node = nodeID }
    IN  IF hits = {} THEN r
        ELSE LET i == CHOOSE h \in hits : \A j \in hits : h <= j
             IN  SpliceService(actions_removeByService(r, i), i)

\* unregisterServicesByNode(nodeID)
unregisterServicesByNode(r, nodeID) == services_removeAllByNodeID(r, nodeID)

RECURSIVE RegisterEach(_, _, _, _, _)
RegisterEach(r, nodeID, i, acts, todo) ==
    IF todo = {} THEN r
    ELSE LET name   == CHOOSE k \in todo : TRUE
             action == Descriptor(name, acts)
             r1     == actions_add(r, nodeID, i, action)
             r2     == service_addAction(r1, i, action)
         IN  RegisterEach(r2, nodeID, i, acts, todo \ {name})

\* registerActions(node, service, actions); the service is services[i]
registerActions(r, nodeID, i, acts) ==
    RegisterEach(r, nodeID, i, acts, DOMAIN acts)

RECURSIVE UnregisterEach(_, _, _)
UnregisterEach(r, nodeID, names) ==
    IF names = {} THEN r
    ELSE LET name == CHOOSE k \in names : TRUE
         IN  UnregisterEach(unregisterAction(r, nodeID, name), nodeID, names \ {name})

\* registerLocalService(svc)
registerLocalService(r, svc) ==
    LET r1 == services_add(r, LocalID, svc.name, svc.version, svc.settings)
    IN  registerActions(r1, LocalID, Len(r1.services), svc.actions)

\* the body of the loop with the bug of leaving the old actions registered
registerOne_keepsOld(r, nodeID, svc) ==
    LET found == services_get(r, svc.name, svc.version, nodeID)
        r1    == IF found = 0
                 THEN services_add(r, nodeID, svc.name, svc.version, svc.settings)
                 ELSE service_update(r, found, svc)
        i     == IF found = 0 THEN Len(r1.services) ELSE found
    IN  registerActions(r1, nodeID, i, svc.actions)

\* the body of serviceList.forEach(svc => ...), registry.js:70-89
registerOne(r, nodeID, svc) ==
    LET found == services_get(r, svc.name, svc.version, nodeID)
        r1    == IF found = 0
                 THEN services_add(r, nodeID, svc.name, svc.version, svc.settings)
                 ELSE service_update(r, found, svc)
        i     == IF found = 0 THEN Len(r1.services) ELSE found
        \* prevActions = Object.assign({}, service.actions), unset for a new service
        prevActions == IF found = 0 THEN {} ELSE DOMAIN r.services[found].actions
        r2    == registerActions(r1, nodeID, i, svc.actions)
    IN  UnregisterEach(r2, nodeID, prevActions \ DOMAIN svc.actions)

RECURSIVE RegisterList(_, _, _, _)
RegisterList(r, nodeID, serviceList, k) ==
    IF k > Len(serviceList) THEN r
    ELSE RegisterList(registerOne(r, nodeID, serviceList[k]), nodeID, serviceList, k + 1)

\* exist: some svc of the list has the service's name and version
existsIn(service, serviceList) ==
    \E k \in 1..Len(serviceList) :
        service_equals(service, serviceList[k].name, serviceList[k].version, "undefined")

\* the removal loop that unregisters without the node id
RECURSIVE RemoveOld_noNode(_, _, _, _, _)
RemoveOld_noNode(r, nodeID, serviceList, k, len) ==
    IF k > len \/ k > Len(r.services) THEN r
    ELSE LET service == r.services[k]
         IN  IF service.node # nodeID \/ existsIn(service, serviceList)
             THEN RemoveOld_noNode(r, nodeID, serviceList, k + 1, len)
             ELSE RemoveOld_noNode(unregisterService(r, service.name, service.version, "undefined"),
                                   nodeID, serviceList, k + 1, len)

\* this.services.services.forEach(service => ...), registry.js:92-105:
\* forEach visits the indexes 1..len of the array as it was when the loop
\* began, each only if the array still has it, while unregisterService
\* takes items out of that same array
RECURSIVE RemoveOld(_, _, _, _, _)
RemoveOld(r, nodeID, serviceList, k, len) ==
    IF k > len \/ k > Len(r.services) THEN r
    ELSE LET service == r.services[k]
         IN  IF service.node # nodeID \/ existsIn(service, serviceList)
             THEN RemoveOld(r, nodeID, serviceList, k + 1, len)
             ELSE RemoveOld(unregisterService(r, service.name, service.version, nodeID),
                            nodeID, serviceList, k + 1, len)

\* registerServices(node, serviceList)
registerServices(r, nodeID, serviceList) ==
    LET r1 == RegisterList(r, nodeID, serviceList, 1)
    IN  RemoveOld(r1, nodeID, serviceList, 1, Len(r1.services))

\* nodeDisconnected with the bug of leaving the node's services registered
nodeDisconnected_keepsServices(r, nodeID, isUnexpected) ==
    IF nodes_has(r, nodeID) /\ r.nodes[nodeID].available
    THEN LET r1 == node_disconnected(r, nodeID, isUnexpected)
             r3 == emitLocal(r1, "$node.disconnected", nodeID, ToBool(isUnexpected))
         IN  servicesChanged(r3, FALSE)
    ELSE r

\* nodeDisconnected with the bug of reporting unexpected whenever the
\* argument is given
nodeDisconnected_flagGiven(r, nodeID, isUnexpected) ==
    IF nodes_has(r, nodeID) /\ r.nodes[nodeID].available
    THEN LET r1 == node_disconnected(r, nodeID, isUnexpected)
             r2 == unregisterServicesByNode(r1, nodeID)
             r3 == emitLocal(r2, "$node.disconnected", nodeID, isUnexpected # "undefined")
         IN  servicesChanged(r3, FALSE)
    ELSE r

\* nodeDisconnected with the bug of deleting the node from the node catalog
nodeDisconnected_deletesNode(r, nodeID, isUnexpected) ==
    IF nodes_has(r, nodeID) /\ r.nodes[nodeID].available
    THEN LET r1 == [r EXCEPT !.nodes = [n \in DOMAIN r.nodes \ {nodeID} |-> r.nodes[n]]]
             r2 == unregisterServicesByNode(r1, nodeID)
             r3 == emitLocal(r2, "$node.disconnected", nodeID, ToBool(isUnexpected))
         IN  servicesChanged(r3, FALSE)
    ELSE r

\* nodeDisconnected that does not look at node.available
nodeDisconnected_anyKnown(r, nodeID, isUnexpected) ==
    IF nodes_has(r, nodeID)
    THEN LET r1 == node_disconnected(r, nodeID, isUnexpected)
             r2 == unregisterServicesByNode(r1, nodeID)
             r3 == emitLocal(r2, "$node.disconnected", nodeID, ToBool(isUnexpected))
         IN  servicesChanged(r3, FALSE)
    ELSE r

\* nodeDisconnected that emits the event before it touches the catalogs
nodeDisconnected_emitsFirst(r, nodeID, isUnexpected) ==
    IF nodes_has(r, nodeID) /\ r.nodes[nodeID].available
    THEN LET r1 == emitLocal(r, "$node.disconnected", nodeID, ToBool(isUnexpected))
             r2 == node_disconnected(r1, nodeID, isUnexpected)
             r3 == unregisterServicesByNode(r2, nodeID)
         IN  servicesChanged(r3, FALSE)
    ELSE r

\* nodeDisconnected(nodeID, isUnexpected)
nodeDisconnected(r, nodeID, isUnexpected) ==
    IF nodes_has(r, nodeID) /\ r.nodes[nodeID].available
    THEN LET r1 == node_disconnected(r, nodeID, isUnexpected)
             r2 == unregisterServicesByNode(r1, nodeID)
             r3 == emitLocal(r2, "$node.disconnected", nodeID, ToBool(isUnexpected))
         IN  servicesChanged(r3, FALSE)
    ELSE r

\* NodeCatalog.processNodeInfo(payload): upsert the node, announce a node
\* that became available, replace its service list
nodes_processNodeInfo(r, payload) ==
    LET id  == payload.sender
        isNew == ~nodes_has(r, id)
        back  == ~isNew /\ ~r.nodes[id].available
        r1 == IF isNew
              THEN [r EXCEPT !.nodes =
                      [n \in DOMAIN r.nodes \cup {id} |->
                         IF n = id THEN [available |-> TRUE, local |-> FALSE, cpu |-> 0]
                         ELSE r.nodes[n]]]
              ELSE [r EXCEPT !.nodes[id].available = TRUE]
        r2 == IF isNew \/ back THEN emitLocal(r1, "$node.connected", id, back) ELSE r1
    IN  registerServices(r2, id, payload.services)

\* processNodeInfo(payload)
processNodeInfo(r, payload) == nodes_processNodeInfo(r, payload)

\* nodeHeartbeat with the bug of handling the packet as an INFO packet
nodeHeartbeat_asInfo(r, payload) ==
    nodes_processNodeInfo(r, [sender |-> payload.sender, services |-> << >>])

\* nodeHeartbeat(payload)
nodeHeartbeat(r, payload) == nodes_heartbeat(r, payload)

\* getActionEndpoints(actionName)
getActionEndpoints(r, actionName) == actions_get(r, actionName)

\* what a lookup that finds no endpoint returns
NoEndpoint == [node |-> "undefined", service |-> 0,
               action |-> [name |-> "undefined", protected |-> FALSE]]

\* EndpointList.getEndpointByNodeID(nodeID)
endpoints_getEndpointByNodeID(list, nodeID) ==
    LET hits == { i \in 1..Len(list) : list[i].node = nodeID }
    IN  IF hits = {} THEN NoEndpoint
        ELSE list[CHOOSE i \in hits : \A j \in hits : i <= j]

\* getActionEndpointByNodeId(actionName, nodeID)
getActionEndpointByNodeId(r, actionName, nodeID) ==
    LET list == actions_get(r, actionName)
    IN  IF list.defined THEN endpoints_getEndpointByNodeID(list.endpoints, nodeID)
        ELSE NoEndpoint

\* the characters of the action names of the model (a JavaScript string
\* is a sequence of characters)
Spelling(name) ==
    CASE name = "a"          -> << "a" >>
      [] name = "$node.list" -> << "$", "n", "o", "d", "e", ".", "l", "i", "s", "t" >>
      [] name = "$nodes.x"   -> << "$", "n", "o", "d", "e", "s", ".", "x" >>

\* q begins with the characters of p
StartsWith(q, p) == Len(q) >= Len(p) /\ SubSeq(q, 1, Len(p)) = p

\* /^\$node/.test(key)
TestDollarNode(key) == StartsWith(Spelling(key), << "$", "n", "o", "d", "e" >>)

\* the circuit state of an endpoint; nothing in the registry opens a
\* circuit
endpoint_state(ep) == "CLOSED"

\* EndpointList.count()
endpoints_count(list) == Len(list)

\* EndpointList.hasLocal(): an endpoint of the local node is in the list
endpoints_hasLocal(r, list) ==
    \E j \in 1..Len(list) : r.nodes[list[j].node].local

\* EndpointList.hasAvailable(): an endpoint is available iff its node is
\* available and its circuit state is not OPEN
endpoints_hasAvailable(r, list) ==
    \E j \in 1..Len(list) :
        /\ nodes_has(r, list[j].node)
        /\ r.nodes[list[j].node].available
        /\ endpoint_state(list[j]) # "OPEN"

\* item.action of getActionList: the descriptor of entry.endpoints[0]
\* without handler and service, as a sequence of length one; << >> is the
\* property left unset
FirstAction(entry) ==
    IF endpoints_count(entry) > 0 THEN << entry[1].action >> ELSE << >>

\* the three returns of the forEach callback of getActionList: the entry
\* gives no item
Skipped(r, key, onlyLocal, skipInternal) ==
    LET entry == r.actions[key]
    IN  \/ skipInternal /\ TestDollarNode(key)
        \/ onlyLocal /\ ~endpoints_hasLocal(r, entry)
        \/ FirstAction(entry) = << >>
        \/ FirstAction(entry)[1].protected = TRUE

\* the item getActionList pushes for an entry; an item without the
\* endpoints property has endpoints = << >>
ListItem(r, key, withEndpoints) ==
    LET entry == r.actions[key]
    IN  [name |-> key,
         count |-> endpoints_count(entry),
         hasLocal |-> endpoints_hasLocal(r, entry),
         available |-> endpoints_hasAvailable(r, entry),
         action |-> FirstAction(entry),
         endpoints |-> IF withEndpoints /\ endpoints_count(entry) > 0
                       THEN [j \in 1..Len(entry) |->
                               [nodeID |-> entry[j].node, state |-> endpoint_state(entry[j])]]
                       ELSE << >>]

\* getActionList({onlyLocal, skipInternal, withEndpoints}): the items of
\* the result (their order, that of the Map, is not modelled)
getActionList(r, onlyLocal, skipInternal, withEndpoints) ==
    { ListItem(r, key, withEndpoints) :
        key \in { k \in DOMAIN r.actions : ~Skipped(r, k, onlyLocal, skipInternal) } }

\* ServiceCatalog.list({onlyLocal, withActions}): one item per service
\* item, in the order of the array, with the actions of the service when
\* asked for
services_list(r, onlyLocal, withActions) ==
    LET Listed(service) == ~onlyLocal \/ r.nodes[service.node].local
        kept == SelectSeq(r.services, Listed)
    IN  [j \in 1..Len(kept) |->
            [name |-> kept[j].name, version |-> kept[j].version,
             settings |-> kept[j].settings, nodeID |-> kept[j].node,
             actions |-> IF withActions THEN kept[j].actions
                         ELSE [k \in {} |-> FALSE]]]

\* getLocalNodeInfo(): the services the INFO packet of this broker lists
\* (uptime, ipList and versions of the local node are not modelled;
\* events is empty)
getLocalNodeInfo(r) ==
    [services |-> services_list(r, TRUE, TRUE), events |-> {}]

----------------------------------------------------------------------------
(* The state machine *)

reg == Reg(nodes, services, actions, << >>)

\* the registry of a started broker: the local node, no service yet
Init ==
    /\ nodes = [n \in {LocalID} |-> [available |-> TRUE, local |-> TRUE, cpu |-> 0]]
    /\ services = << >>
    /\ actions = [k \in {} |-> << >>]
    /\ calls = << >>

LocalCount == Cardinality({ i \in 1..Len(services) : services[i].node = LocalID })

\* broker.createService -> registry.registerLocalService(svc)
RegisterLocalService ==
    /\ LocalCount < MaxLocalServices
    /\ \E svc \in LocalSvcs :
          \E r \in { registerLocalService(reg, svc) } :
              /\ nodes' = r.nodes
              /\ services' = r.services
              /\ actions' = r.actions
              /\ calls' = r.calls

\* an INFO packet of a remote node
ProcessNodeInfo ==
    \E id \in RemoteIDs, serviceList \in ServiceLists :
        \E r \in { processNodeInfo(reg, [sender |-> id, services |-> serviceList]) } :
            /\ nodes' = r.nodes
            /\ services' = r.services
            /\ actions' = r.actions
            /\ calls' = r.calls

\* a HEARTBEAT packet of a remote node
NodeHeartbeat ==
    \E id \in RemoteIDs, cpu \in CpuVals :
        \E r \in { nodeHeartbeat(reg, [sender |-> id, cpu |-> cpu]) } :
            /\ nodes' = r.nodes
            /\ services' = r.services
            /\ actions' = r.actions
            /\ calls' = r.calls

\* a DISCONNECT packet of a remote node, or its heartbeat timing out
NodeDisconnected ==
    \E id \in RemoteIDs, u \in Flags :
        \E r \in { nodeDisconnected(reg, id, u) } :
            /\ nodes' = r.nodes
            /\ services' = r.services
            /\ actions' = r.actions
            /\ calls' = r.calls

\* registry.unregisterService(name, version, nodeID)
UnregisterService ==
    \E name \in ServiceNames, version \in Versions, id \in NodeIDs \cup {"undefined"} :
        \E r \in { unregisterService(reg, name, version, id) } :
            /\ nodes' = r.nodes
            /\ services' = r.services
            /\ actions' = r.actions
            /\ calls' = r.calls

\* registry.unregisterServicesByNode(nodeID)
UnregisterServicesByNode ==
    \E id \in NodeIDs :
        \E r \in { unregisterServicesByNode(reg, id) } :
            /\ nodes' = r.nodes
            /\ services' = r.services
            /\ actions' = r.actions
            /\ calls' = r.calls

\* registry.unregisterAction(node, name), node a node of the catalog
UnregisterAction ==
    \E id \in DOMAIN nodes, name \in ActionNames :
        \E r \in { unregisterAction(reg, id, name) } :
            /\ nodes' = r.nodes
            /\ services' = r.services
            /\ actions' = r.actions
            /\ calls' = r.calls

Next ==
    \/ RegisterLocalService
    \/ ProcessNodeInfo
    \/ NodeHeartbeat
    \/ NodeDisconnected
    \/ UnregisterService
    \/ UnregisterServicesByNode
    \/ UnregisterAction

Spec == Init /\ [][Next]_vars

----------------------------------------------------------------------------
(* The state machine of the action list: the services carry internal     *)
(* action names and protected actions                                     *)

\* the local node hosts at most this many services here
MaxListedLocal == 1

\* an INFO packet lists at most this many services here
MaxListedLen == 1

ListedActionNames == {"a", "$node.list", "$nodes.x"}
ListedServiceNames == {"s1"}

\* svc.actions with any of the names, each protected or not
ListedActionMaps ==
    UNION { [D -> BOOLEAN] : D \in SUBSET ListedActionNames }

ListedSvcs ==
    [name : ListedServiceNames, version : Versions, settings : Settings,
     actions : ListedActionMaps]

ListedServiceLists == SeqsUpTo(ListedSvcs, MaxListedLen)

\* broker.createService -> registry.registerLocalService(svc)
ListedRegisterLocalService ==
    /\ LocalCount < MaxListedLocal
    /\ \E svc \in ListedSvcs :
          \E r \in { registerLocalService(reg, svc) } :
              /\ nodes' = r.nodes
              /\ services' = r.services
              /\ actions' = r.actions
              /\ calls' = r.calls

\* an INFO packet of a remote node -> registry.processNodeInfo(payload)
ListedProcessNodeInfo ==
    \E id \in RemoteIDs, serviceList \in ListedServiceLists :
        \E r \in { processNodeInfo(reg, [sender |-> id, services |-> serviceList]) } :
            /\ nodes' = r.nodes
            /\ services' = r.services
            /\ actions' = r.actions
            /\ calls' = r.calls

\* the local service is destroyed -> registry.unregisterService(name, version)
ListedUnregisterService ==
    \E name \in ListedServiceNames, version \in Versions :
        \E r \in { unregisterService(reg, name, version, "undefined") } :
            /\ nodes' = r.nodes
            /\ services' = r.services
            /\ actions' = r.actions
            /\ calls' = r.calls

NextList ==
    \/ ListedRegisterLocalService
    \/ ListedProcessNodeInfo
    \/ ListedUnregisterService
    \/ NodeDisconnected

SpecList == Init /\ [][NextList]_vars

----------------------------------------------------------------------------
(* Properties of the registry *)

\* the endpoints of a node in the action catalog of r, as <<action, index>>
EndpointsOf(r, nodeID) ==
    UNION { { <<k, i>> : i \in { j \in 1..Len(r.actions[k]) : r.actions[k][j].node = nodeID } }
            : k \in DOMAIN r.actions }

\* the service catalog and the action catalog of two registries are the same
SameCatalogs(r1, r2) == r1.services = r2.services /\ r1.actions = r2.actions

\* the key (name, version) of svc occurs once in the list
OccursOnce(serviceList, k) ==
    \A j \in 1..Len(serviceList) :
        j # k => ~(/\ serviceList[j].name = serviceList[k].name
                   /\ serviceList[j].version = serviceList[k].version)

\* the nodes a reconcile can be run for: the remote nodes the catalog knows
KnownRemote == RemoteIDs \cap DOMAIN nodes

\* C1: the service catalog holds at most one entry for each
\* (name, version, nodeId)
C1_ServiceUniqueness ==
    \A i, j \in 1..Len(services) :
        i # j => ~(/\ services[i].name = services[j].name
                   /\ services[i].version = services[j].version
                   /\ services[i].node = services[j].node)

\* C2: each action entry holds at most one endpoint per nodeId
C2_EndpointUniqueness ==
    \A k \in DOMAIN actions :
        \A i, j \in 1..Len(actions[k]) :
            i # j => actions[k][i].node # actions[k][j].node

\* C2's case: two services of one node declare the same action name and
\* that node has an endpoint for it
C2_Witness ==
    \E i, j \in 1..Len(services) :
        /\ i # j
        /\ services[i].node = services[j].node
        /\ \E k \in DOMAIN services[i].actions \cap DOMAIN services[j].actions :
              /\ k \in DOMAIN actions
              /\ \E e \in 1..Len(actions[k]) : actions[k][e].node = services[i].node

\* C3: registerServices(node, L) run a second time with the same list
\* leaves the service catalog and the action catalog as the first run
\* left them
C3_IdempotentReconcile ==
    \A id \in KnownRemote, serviceList \in ServiceLists :
        LET r1 == registerServices(reg, id, serviceList)
        IN  SameCatalogs(registerServices(r1, id, serviceList), r1)

\* C4: after registerServices(node, L2) no service that the node had
\* before the call and that L2 omits is left in the service catalog
C4_ReconcileRemovesStale ==
    \A id \in KnownRemote, serviceList \in ServiceLists :
        LET r1 == registerServices(reg, id, serviceList)
        IN  \A i \in 1..Len(services) :
              (services[i].node = id /\ ~existsIn(services[i], serviceList))
                 => services_get(r1, services[i].name, services[i].version, id) = 0

\* no other service of the list declares an action of the k-th one
OwnActions(serviceList, k) ==
    \A j \in 1..Len(serviceList) :
        j # k => DOMAIN serviceList[j].actions \cap DOMAIN serviceList[k].actions = {}

\* C5: after registerServices(node, L1); registerServices(node, L1 \ {s})
\* the service s is absent and the node has no endpoint for any action of
\* s (stated for the lists L1 in which s is the only service that declares
\* its actions, where no service of L1 \ {s} is owed such an endpoint)
C5_ReconcileRemoval ==
    \A id \in KnownRemote, serviceList \in ServiceLists :
        \A k \in 1..Len(serviceList) :
            (OccursOnce(serviceList, k) /\ OwnActions(serviceList, k)) =>
                LET s  == serviceList[k]
                    r1 == registerServices(reg, id, serviceList)
                    r2 == registerServices(r1, id, Without(serviceList, k))
                IN  /\ services_get(r2, s.name, s.version, id) = 0
                    /\ \A a \in DOMAIN s.actions :
                          getActionEndpointByNodeId(r2, a, id) = NoEndpoint

\* the payload of $node.disconnected and the notification that follows it
DisconnectCalls(id, u) ==
    << Call("emitLocal", "$node.disconnected", id, ToBool(u)),
       Call("servicesChanged", "-", "-", FALSE) >>

\* C6: after nodeDisconnected(n, u), whatever the node, the flag and the
\* state before, no action entry holds an endpoint of n
C6_DisconnectCascade ==
    \A id \in NodeIDs, u \in Flags :
        EndpointsOf(nodeDisconnected(reg, id, u), id) = {}

\* C6's case: an available node with an endpoint beside another node's
\* disconnects, and its endpoint goes while the other stays
C6_Witness ==
    \E id \in KnownRemote :
        /\ nodes[id].available
        /\ EndpointsOf(reg, id) # {}
        /\ EndpointsOf(reg, LocalID) # {}
        /\ LET r1 == nodeDisconnected(reg, id, "true")
           IN  EndpointsOf(r1, id) = {} /\ EndpointsOf(r1, LocalID) # {}

\* the endpoint's service is in the catalog, is of the endpoint's node and
\* has the endpoint's action among its actions
EndpointOwned(r, k, i) ==
    LET ep == r.actions[k][i]
    IN  /\ ep.service \in 1..Len(r.services)
        /\ r.services[ep.service].node = ep.node
        /\ k \in DOMAIN r.services[ep.service].actions

\* the last descriptor of the list for the service, 0 for none
LastDescriptor(service, serviceList) ==
    LET hits == { k \in 1..Len(serviceList) :
                    service_equals(service, serviceList[k].name,
                                   serviceList[k].version, "undefined") }
    IN  IF hits = {} THEN 0 ELSE CHOOSE k \in hits : \A j \in hits : j <= k

\* C7: every endpoint refers to a service that is in the service catalog,
\* for the endpoint's node, and that has the endpoint's action among its
\* actions; and after a reconcile no endpoint of the node is left for an
\* action that its service's descriptor in the list no longer holds
C7_EndpointFollowsService ==
    /\ \A k \in DOMAIN actions : \A i \in 1..Len(actions[k]) : EndpointOwned(reg, k, i)
    /\ \A id \in KnownRemote, serviceList \in ServiceLists :
          LET r1 == registerServices(reg, id, serviceList)
          IN  \A e \in EndpointsOf(r1, id) :
                /\ EndpointOwned(r1, e[1], e[2])
                /\ LET service == r1.services[r1.actions[e[1]][e[2]].service]
                       d == LastDescriptor(service, serviceList)
                   IN  d # 0 => e[1] \in DOMAIN serviceList[d].actions

\* C7's case: a service of a node lost an action it had (its endpoint is
\* gone while the service stays) and another node still serves the action
C7_Witness ==
    \E i \in 1..Len(services) :
        /\ services[i].node \in RemoteIDs
        /\ \E k \in DOMAIN services[i].actions :
              /\ k \in DOMAIN actions
              /\ EndpointsOf(reg, services[i].node) = {}
              /\ EndpointsOf(reg, LocalID) # {}

\* C8: nodeDisconnected(n, u) on a known, available node marks it
\* unavailable and asks the broker for exactly $node.disconnected with
\* {node: n, unexpected: !!u} and then servicesChanged(false)
C8_DisconnectEmits ==
    \A id \in DOMAIN nodes, u \in Flags :
        nodes[id].available =>
            LET r1 == nodeDisconnected(reg, id, u)
            IN  /\ r1.nodes[id].available = FALSE
                /\ r1.calls = DisconnectCalls(id, u)

\* C8's case: a disconnect of an available node has just run, once with
\* the flag omitted
C8_Witness ==
    \E id \in KnownRemote :
        /\ ~nodes[id].available
        /\ calls = DisconnectCalls(id, "undefined")

\* the step is an INFO or a HEARTBEAT of the node
InfoOrHeartbeatOf(id) ==
    \/ \E serviceList \in ServiceLists :
          LET r == processNodeInfo(reg, [sender |-> id, services |-> serviceList])
          IN  nodes' = r.nodes /\ services' = r.services /\ actions' = r.actions
    \/ \E cpu \in CpuVals :
          LET r == nodeHeartbeat(reg, [sender |-> id, cpu |-> cpu])
          IN  nodes' = r.nodes /\ services' = r.services /\ actions' = r.actions

\* the step is nodeDisconnected(id, u) for some flag u
DisconnectOf(id) ==
    \E u \in Flags :
        LET r == nodeDisconnected(reg, id, u)
        IN  /\ nodes' = r.nodes /\ services' = r.services
            /\ actions' = r.actions /\ calls' = r.calls

\* C9: no step takes a node out of the node catalog; a disconnect leaves
\* the node there with available = false, and an unavailable node stays
\* unavailable in every step that is no INFO or HEARTBEAT of it
C9_Tombstone ==
    [][ /\ DOMAIN nodes \subseteq DOMAIN nodes'
        /\ \A id \in DOMAIN nodes :
              /\ DisconnectOf(id) => ~nodes'[id].available
              /\ (~nodes[id].available /\ nodes'[id].available) => InfoOrHeartbeatOf(id)
      ]_vars

\* C9's case: a node that had registered is disconnected and still in the
\* node catalog, its services gone
C9_Witness ==
    \E id \in KnownRemote :
        /\ ~nodes[id].available
        /\ calls = DisconnectCalls(id, "true")
        /\ \A i \in 1..Len(services) : services[i].node # id

\* C10: nodeHeartbeat(payload), of a known or an unknown sender, leaves the
\* service catalog and the action catalog as they are
C10_HeartbeatFrame ==
    \A id \in NodeIDs, cpu \in CpuVals :
        SameCatalogs(nodeHeartbeat(reg, [sender |-> id, cpu |-> cpu]), reg)

\* C10's case: the heartbeat of a tombstoned node brings the node back
\* while the catalogs hold services and endpoints
C10_Witness ==
    \E id \in KnownRemote :
        /\ ~nodes[id].available
        /\ Len(services) > 0
        /\ EndpointsOf(reg, LocalID) # {}
        /\ nodeHeartbeat(reg, [sender |-> id, cpu |-> 0]).nodes[id].available

\* no two descriptors of the list have the same (name, version)
DistinctKeys(serviceList) ==
    \A k \in 1..Len(serviceList) : OccursOnce(serviceList, k)

\* C13: after registerServices(node, L), for every service of L and every
\* action it declares, getActionEndpointByNodeId(action, node) returns an
\* endpoint, also when the call takes the action name away from another
\* registered service of the node (stated for the lists with no
\* (name, version) twice)
C13_AnnouncedServed ==
    \A id \in KnownRemote, serviceList \in ServiceLists :
        DistinctKeys(serviceList) =>
            LET r1 == registerServices(reg, id, serviceList)
            IN  \A k \in 1..Len(serviceList) :
                  \A a \in DOMAIN serviceList[k].actions :
                      getActionEndpointByNodeId(r1, a, id) # NoEndpoint

\* an endpoint as another part of the program sees it: its node, its
\* action and the service item it refers to
EndpointView(r, ep) ==
    [node |-> ep.node, action |-> ep.action,
     service |-> IF ep.service \in 1..Len(r.services)
                 THEN << r.services[ep.service] >> ELSE << >>]

\* the endpoints of the action that are not of the node, in their order
OthersOf(r, k, nodeID) ==
    IF k \notin DOMAIN r.actions THEN << >>
    ELSE LET Other(ep) == ep.node # nodeID
             eps == SelectSeq(r.actions[k], Other)
         IN  [j \in 1..Len(eps) |-> EndpointView(r, eps[j])]

\* the actions the stored service i of the node has and its descriptor in
\* the list (the last one for its name and version) no longer holds
DroppedActions(i, serviceList) ==
    LET d == LastDescriptor(services[i], serviceList)
    IN  IF d = 0 THEN {}
        ELSE DOMAIN services[i].actions \ DOMAIN serviceList[d].actions

\* another service of the list declares the action
DeclaredByAnother(service, serviceList, a) ==
    \E k \in 1..Len(serviceList) :
        /\ ~service_equals(service, serviceList[k].name, serviceList[k].version, "undefined")
        /\ a \in DOMAIN serviceList[k].actions

\* C14 as it is stated: when registerServices(node, L) updates a stored
\* service whose descriptor in L no longer holds its action a, the entry
\* of a holds no endpoint of the node after the call, and the endpoints of
\* a on the other nodes are kept
C14_NoEndpointLeft ==
    \A id \in KnownRemote, serviceList \in ServiceLists :
        \A i \in 1..Len(services) :
            services[i].node = id =>
                \A a \in DroppedActions(i, serviceList) :
                    LET r1 == registerServices(reg, id, serviceList)
                    IN  /\ getActionEndpointByNodeId(r1, a, id) = NoEndpoint
                        /\ OthersOf(r1, a, id) = OthersOf(reg, a, id)

\* C14, amended: when registerServices(node, L) updates a stored service
\* whose descriptor in L no longer holds its action a, then after the call
\* the entry of a holds no endpoint of the node that belongs to that
\* service (an endpoint of the node is there only when another service of
\* L declares a, and belongs to another service), and the endpoints of a
\* on the other nodes are kept
C14_UpdatedServiceDropsActions ==
    \A id \in KnownRemote, serviceList \in ServiceLists :
        \A i \in 1..Len(services) :
            services[i].node = id =>
                \A a \in DroppedActions(i, serviceList) :
                    LET r1 == registerServices(reg, id, serviceList)
                        ep == getActionEndpointByNodeId(r1, a, id)
                        j  == services_get(r1, services[i].name, services[i].version, id)
                    IN  /\ ep # NoEndpoint =>
                              /\ ep.service # j
                              /\ DeclaredByAnother(services[i], serviceList, a)
                        /\ OthersOf(r1, a, id) = OthersOf(reg, a, id)

\* C14's case: a service of a remote node serves an action that the local
\* node serves too, and a reconcile whose descriptor of the service has no
\* action takes the node's endpoint away and keeps the local one
C14_Witness ==
    \E id \in KnownRemote, i \in 1..Len(services) :
        /\ services[i].node = id
        /\ \E a \in DOMAIN services[i].actions :
              LET serviceList == << [name |-> services[i].name, version |-> services[i].version,
                                     settings |-> services[i].settings,
                                     actions |-> [k \in {} |-> FALSE]] >>
                  r1 == registerServices(reg, id, serviceList)
              IN  /\ getActionEndpointByNodeId(reg, a, id) # NoEndpoint
                  /\ getActionEndpointByNodeId(reg, a, LocalID) # NoEndpoint
                  /\ getActionEndpointByNodeId(r1, a, id) = NoEndpoint
                  /\ getActionEndpointByNodeId(r1, a, LocalID) # NoEndpoint

\* the services that are not of the node, in their order
OtherServices(r, nodeID) ==
    LET Other(service) == service.node # nodeID
    IN  SelectSeq(r.services, Other)

\* C16: registerServices(node, L) leaves every service and every action
\* endpoint of any other node as it was, a service with the name and
\* version of one of the node's included
C16_ReconcileLocalToNode ==
    \A id \in KnownRemote, serviceList \in ServiceLists :
        LET r1 == registerServices(reg, id, serviceList)
        IN  /\ OtherServices(r1, id) = OtherServices(reg, id)
            /\ \A k \in DOMAIN r1.actions \cup DOMAIN actions :
                  OthersOf(r1, k, id) = OthersOf(reg, k, id)

\* C16's case: the local node and a remote node have a service of the
\* same name and version with the same action, and a reconcile of the
\* remote node with an empty list removes the remote one alone
C16_Witness ==
    \E id \in KnownRemote, i, j \in 1..Len(services) :
        /\ services[i].node = id
        /\ services[j].node = LocalID
        /\ services[i].name = services[j].name
        /\ services[i].version = services[j].version
        /\ \E a \in DOMAIN actions :
              /\ getActionEndpointByNodeId(reg, a, id) # NoEndpoint
              /\ getActionEndpointByNodeId(reg, a, LocalID) # NoEndpoint
        /\ LET r1 == registerServices(reg, id, << >>)
           IN  /\ services_get(r1, services[i].name, services[i].version, id) = 0
               /\ services_get(r1, services[j].name, services[j].version, LocalID) # 0
               /\ EndpointsOf(r1, id) = {}

\* C17: in every state that INFO, HEARTBEAT and DISCONNECT events (and the
\* other operations of the registry) lead to, a node with available =
\* false has no entry in the service catalog and no endpoint in any action
\* entry
C17_NoServicesOnTombstone ==
    \A id \in DOMAIN nodes :
        ~nodes[id].available =>
            /\ \A i \in 1..Len(services) : services[i].node # id
            /\ EndpointsOf(reg, id) = {}

\* C17's case: a remote node that had announced services is tombstoned by
\* a disconnect while the local node keeps a service and an endpoint
C17_Witness ==
    \E id \in KnownRemote :
        /\ ~nodes[id].available
        /\ calls = DisconnectCalls(id, "false")
        /\ \E i \in 1..Len(services) : services[i].node = LocalID
        /\ EndpointsOf(reg, LocalID) # {}

\* the $node.disconnected events among the broker calls of r
DisconnectedEvents(r) ==
    { c \in 1..Len(r.calls) :
        r.calls[c].call = "emitLocal" /\ r.calls[c].event = "$node.disconnected" }

\* C18: nodeDisconnected(n, u) for a node that is not in the node catalog
\* or is already unavailable asks nothing of the broker and leaves the
\* node, service and action catalogs as they are; so a second disconnect
\* of a node that has just disconnected adds nothing to the one
\* $node.disconnected of the first
C18_DisconnectNoOp ==
    \A id \in NodeIDs, u \in Flags :
        /\ (~nodes_has(reg, id) \/ ~nodes[id].available) =>
              nodeDisconnected(reg, id, u) = reg
        /\ (nodes_has(reg, id) /\ nodes[id].available) =>
              LET r1 == nodeDisconnected(reg, id, u)
              IN  \A u2 \in Flags :
                    /\ nodeDisconnected(r1, id, u2) = r1
                    /\ Cardinality(DisconnectedEvents(nodeDisconnected(r1, id, u2))) = 1

\* C18's case: a remote node has disconnected and is a tombstone, the
\* catalogs hold services and endpoints of the local node, and one more
\* disconnect of it changes nothing
C18_Witness ==
    \E id \in KnownRemote :
        /\ ~nodes[id].available
        /\ calls = DisconnectCalls(id, "true")
        /\ Len(services) > 0
        /\ EndpointsOf(reg, LocalID) # {}
        /\ nodeDisconnected(reg, id, "true").calls = << >>

\* C19: when nodeDisconnected(n, u) of an available node hands
\* $node.disconnected to the subscribers, the node is already unavailable
\* and has no service and no endpoint left in the registry, and
\* servicesChanged(false) is called after the event, not before
C19_DisconnectOrdering ==
    \A id \in DOMAIN nodes, u \in Flags :
        nodes[id].available =>
            LET r1 == nodeDisconnected(reg, id, u)
            IN  /\ r1.seen = << [event |-> "$node.disconnected", node |-> id,
                                 available |-> FALSE, services |-> {},
                                 endpoints |-> {}] >>
                /\ \E e \in DisconnectedEvents(r1) :
                      \A c \in 1..Len(r1.calls) :
                          r1.calls[c].call = "servicesChanged" => c > e

\* C19's case: an available remote node that has a service and an
\* endpoint disconnects, and the event is handed over after they are gone
C19_Witness ==
    \E id \in KnownRemote :
        /\ nodes[id].available
        /\ \E i \in 1..Len(services) : services[i].node = id
        /\ EndpointsOf(reg, id) # {}
        /\ LET r1 == nodeDisconnected(reg, id, "false")
           IN  /\ Len(r1.seen) = 1
               /\ r1.seen[1].endpoints = {}
               /\ Len(r1.calls) = 2

\* the (name, version) keys of the services the catalog of r holds for
\* the node
ServiceKeys(r, nodeID) ==
    { <<r.services[i].name, r.services[i].version>> :
        i \in { j \in 1..Len(r.services) : r.services[j].node = nodeID } }

\* the action names the services of the node have in the catalog of r
HostedActions(r, nodeID) ==
    UNION { DOMAIN r.services[i].actions :
              i \in { j \in 1..Len(r.services) : r.services[j].node = nodeID } }

\* the registry of a broker B that knows nothing of node A yet but its
\* node entry
FreshPeer(id) ==
    Reg([n \in {LocalID, id} |-> [available |-> TRUE, local |-> n = LocalID, cpu |-> 0]],
        << >>, [k \in {} |-> << >>], << >>)

\* registerServices on broker B with the list getLocalNodeInfo() gives
\* on broker A (the registry of this state taken as A's; node A is id on
\* B): B holds for A exactly the keys and the action names A hosts
RoundTrip(peer, id) ==
    LET info == getLocalNodeInfo(reg)
        r1   == registerServices(peer, id, info.services)
    IN  /\ ServiceKeys(r1, id) = ServiceKeys(reg, LocalID)
        /\ { e[1] : e \in EndpointsOf(r1, id) } = HostedActions(reg, LocalID)

\* C15: the list of getLocalNodeInfo() of a broker A holds no service A
\* learned from a remote node, and registerServices(nodeA, list) on a
\* broker B leaves B with exactly the (name, version) services and the
\* action names A hosts, whether B knew nothing of A (a first INFO) or
\* had registered services of A before (a later INFO; B's registry is
\* then any reachable one, here the one of this state, read as B's with
\* A as its remote node)
C15_DiscoveryRoundTrip ==
    /\ LET list == getLocalNodeInfo(reg).services
       IN  \A k \in 1..Len(list) : list[k].nodeID = LocalID
    /\ \A id \in RemoteIDs : RoundTrip(FreshPeer(id), id)
    /\ \A id \in KnownRemote : RoundTrip(reg, id)

\* the names of the items of an action list
ListedNames(items) == { item.name : item \in items }

\* the action name has a registered endpoint whose descriptor is protected
HasProtectedEndpoint(r, k) ==
    \E j \in 1..Len(r.actions[k]) : r.actions[k][j].action.protected = TRUE

\* C11: whatever the options onlyLocal, skipInternal and withEndpoints,
\* getActionList returns no item for an action name that has a registered
\* endpoint with a protected descriptor, at whichever place of the
\* entry's endpoint list that endpoint is
C11_ProtectedHidden ==
    \A onlyLocal, skipInternal, withEndpoints \in BOOLEAN :
        \A k \in DOMAIN actions :
            HasProtectedEndpoint(reg, k) =>
                k \notin ListedNames(getActionList(reg, onlyLocal, skipInternal, withEndpoints))

\* the name has the reserved prefix of the internal actions, "$node."
HasReservedPrefix(name) ==
    StartsWith(Spelling(name), << "$", "n", "o", "d", "e", "." >>)

\* skipInternal = true takes the names with the reserved prefix out of
\* the result and nothing else
SkipInternalFilter ==
    \A onlyLocal, withEndpoints \in BOOLEAN :
        ListedNames(getActionList(reg, onlyLocal, TRUE, withEndpoints))
          = { name \in ListedNames(getActionList(reg, onlyLocal, FALSE, withEndpoints)) :
                ~HasReservedPrefix(name) }

\* onlyLocal = true gives exactly the entries that are not protected and
\* have an endpoint of the local node
OnlyLocalFilter ==
    \A withEndpoints \in BOOLEAN :
        ListedNames(getActionList(reg, TRUE, FALSE, withEndpoints))
          = { k \in DOMAIN actions :
                /\ ~HasProtectedEndpoint(reg, k)
                /\ \E j \in 1..Len(actions[k]) : actions[k][j].node = LocalID }

\* withEndpoints = true gives each item one {nodeID, state} per endpoint
\* of its entry, as many as its count
WithEndpointsList ==
    \A onlyLocal, skipInternal \in BOOLEAN :
        \A item \in getActionList(reg, onlyLocal, skipInternal, TRUE) :
            /\ Len(item.endpoints) = item.count
            /\ item.count = Len(actions[item.name])
            /\ \A j \in 1..Len(item.endpoints) :
                  /\ item.endpoints[j].nodeID = actions[item.name][j].node
                  /\ item.endpoints[j].state = endpoint_state(actions[item.name][j])

\* C12: the filters of getActionList: skipInternal = true leaves out the
\* actions with the reserved $node. prefix and no other; onlyLocal = true
\* gives exactly the non-protected entries with an endpoint of the local
\* node; withEndpoints = true lists one {nodeID, state} per endpoint, as
\* many as the item's count
C12_ListFilters ==
    /\ SkipInternalFilter
    /\ OnlyLocalFilter
    /\ WithEndpointsList

====
